---- MODULE Spec2Model ----
(***************************************************************************)
(* git-hotspots: the commit extractor (AnalyzeCommits, getFilesInCommit)   *)
(* and the hotspot aggregator (IdentifyHotspots) of internal/git/git.go,   *)
(* library-based variant (lines 130-400).                                  *)
(*                                                                         *)
(* Three specifications share the variables:                               *)
(*   SpecHot   IdentifyHotspots on a bounded, arbitrary commit sequence    *)
(*   SpecHotTwice  the same, called a second time on the same sequence    *)
(*   SpecFiles getFilesInCommit on a bounded, arbitrary commit object      *)
(*   SpecLog   AnalyzeCommits on a bounded, arbitrary repository           *)
(*   SpecMain  main of cmd/git-hotspots/main.go on such a repository       *)
(*   SpecShow  the display step of main (58-86) on arbitrary tables        *)
(***************************************************************************)
EXTENDS Integers, Sequences, FiniteSets, TLC

VARIABLES
    pc,            \* position of the running function
    \* ---- IdentifyHotspots (git.go 318-399)
    commits,       \* the []CommitInfo argument
    ci,            \* index of the next commit of the outer loop (325)
    fileCommits,   \* map[string]int, file -> touches (319)
    dirCommits,    \* map[string]int, dir -> touches (320)
    fileAuthors,   \* map[string]map[string]int (321)
    dirAuthors,    \* map[string]map[string]int (322)
    fileHotspots,  \* []Hotspot being built (352)
    dirHotspots,   \* []Hotspot being built (374)
    \* ---- getFilesInCommit (git.go 230-315)
    commit,        \* the *object.Commit argument: its tree and parents
    pos,           \* position of the parents iterator (240, 261)
    files,         \* []string being built (231)
    seenFiles,     \* map[string]bool (254)
    diffed,        \* the change lists tree.Diff returned so far (277)
    ferr,          \* TRUE when getFilesInCommit returned (nil, err)
    misses,        \* parity of the lookups that reported not-found (262)
    \* ---- AnalyzeCommits (git.go 159-219)
    repo,          \* the repository: its commit objects and head
    heap,          \* log iterator: commits loaded and not yet delivered
    seen,          \* log iterator: commits already delivered or skipped
    out,           \* the commits slice being appended to (160, 210)
    result,        \* the returned pair: [commits, err]
    \* ---- main (cmd/git-hotspots/main.go 16-87)
    args,          \* the command line and what filepath.Abs makes of it
    stdout,        \* what the process printed
    screen,        \* what ui.DisplayHotspots rendered
    calls,         \* the functions called so far, in order
    exit           \* the exit status of the process

hotVars   == <<commits, ci, fileCommits, dirCommits, fileAuthors, dirAuthors,
               fileHotspots, dirHotspots>>
filesVars == <<commit, pos, files, seenFiles, diffed, ferr, misses>>
logVars   == <<repo, heap, seen, out, result>>
mainVars  == <<args, stdout, screen, calls, exit>>
vars      == <<pc, hotVars, filesVars, logVars, mainVars>>

----------------------------------------------------------------------------
(* Bounds of the model *)
MaxCommits == 2        \* commits in the sequence given to IdentifyHotspots
MaxFiles   == 2        \* changed paths per commit record
MaxParents == 2        \* parents of a commit
MaxRepoCommits == 3    \* commit objects of the repository

(* Repository-relative paths, as lists of components, in path order.       *)
PathList == << <<"a">>, <<"d", "e", "c">>, <<"d", "e", "f">> >>
Paths    == {PathList[k] : k \in 1..Len(PathList)}
Authors  == {"X", "Y"}

Range(s) == {s[k] : k \in 1..Len(s)}

(* Position of a path in the path order *)
PathIx(p) == CHOOSE k \in 1..Len(PathList) : PathList[k] = p

(* Go's zero values *)
NoMap   == <<>>        \* an empty map (make(map...))
NoSlice == <<>>        \* a nil slice

(* m[k] of a Go map: the zero value when the key is absent *)
MapGet(m, k) == IF k \in DOMAIN m THEN m[k] ELSE 0

(* m[k]++ *)
MapInc(m, k) ==
    [x \in (DOMAIN m) \cup {k} |-> IF x = k THEN MapGet(m, k) + 1 ELSE m[x]]

(* Mutant of MapInc2: the inner map is made anew for an author it does not *)
(* hold yet                                                                *)
MapInc2ResetOnNewAuthor(m, k, a) ==
    [x \in (DOMAIN m) \cup {k} |->
        IF x = k
        THEN MapInc(IF k \in DOMAIN m /\ a \in DOMAIN m[k] THEN m[k] ELSE NoMap, a)
        ELSE m[x]]

(* m[k][a]++ after "if _, ok := m[k]; !ok { m[k] = make(map[string]int) }" *)
MapInc2(m, k, a) ==
    [x \in (DOMAIN m) \cup {k} |->
        IF x = k THEN MapInc(IF k \in DOMAIN m THEN m[k] ELSE NoMap, a)
                 ELSE m[x]]

(* Mutant of Dir: the top-level directory instead of the immediate parent *)
DirAncestor(p) == IF Len(p) = 1 THEN <<".">> ELSE <<p[1]>>
(* filepath.Dir on a clean relative path: all but the last component, "."  *)
(* when there is no parent component.                                      *)
Dir(p) == IF Len(p) = 1 THEN <<".">> ELSE SubSeq(p, 1, Len(p) - 1)

Dot == <<".">>

----------------------------------------------------------------------------
(* IdentifyHotspots, lines 325-349: the counting pass *)

(* The four maps, as one record *)
Maps(fc, dc, fa, da) == [fc |-> fc, dc |-> dc, fa |-> fa, da |-> da]

(* Mutants of CountFile *)
CountFileOncePerPath(m, author, file) ==
    LET dir == Dir(file) IN
    [fc |-> IF file \in DOMAIN m.fc THEN m.fc ELSE MapInc(m.fc, file),
     fa |-> MapInc2(m.fa, file, author),
     dc |-> IF dir # Dot THEN MapInc(m.dc, dir) ELSE m.dc,
     da |-> IF dir # Dot THEN MapInc2(m.da, dir, author) ELSE m.da]

(* One iteration of the inner loop, lines 327-348 *)
CountFile(m, author, file) ==
    LET dir == Dir(file) IN
    [fc |-> MapInc(m.fc, file),
     fa |-> MapInc2(m.fa, file, author),
     dc |-> IF dir # Dot THEN MapInc(m.dc, dir) ELSE m.dc,
     da |-> IF dir # Dot THEN MapInc2(m.da, dir, author) ELSE m.da]

(* The inner loop over commit.Files, from index k on *)
RECURSIVE CountFiles(_, _, _, _)
CountFiles(m, author, fs, k) ==
    IF k > Len(fs) THEN m
    ELSE CountFiles(CountFile(m, author, fs[k]), author, fs, k + 1)

(* Mutant of CountCommitFiles: a directory is counted once per commit *)
RECURSIVE CountFilesDirOnce(_, _, _, _, _)
CountFilesDirOnce(m, author, fs, k, dirsDone) ==
    IF k > Len(fs) THEN m
    ELSE LET dir == Dir(fs[k])
             n   == CountFile(m, author, fs[k])
         IN  IF dir \in dirsDone
             THEN CountFilesDirOnce([n EXCEPT !.dc = m.dc, !.da = m.da],
                                    author, fs, k + 1, dirsDone)
             ELSE CountFilesDirOnce(n, author, fs, k + 1, dirsDone \cup {dir})

CountCommitFilesDirOnce(m, c) == CountFilesDirOnce(m, c.Author, c.Files, 1, {})

(* One iteration of the outer loop, lines 325-349 *)
CountCommitFiles(m, c) == CountFiles(m, c.Author, c.Files, 1)

----------------------------------------------------------------------------
(* IdentifyHotspots, lines 353-393: the two tables *)

(* Mutant of TopStep: the comparison reversed *)
TopStepLess(top, author, authorCommits) ==
    IF top.n = 0 \/ authorCommits < top.n
    THEN [who |-> author, n |-> authorCommits]
    ELSE top

(* Lines 359-362: one iteration of the range over the authors of a path *)
TopStep(top, author, authorCommits) ==
    IF authorCommits > top.n
    THEN [who |-> author, n |-> authorCommits]
    ELSE top

(* Lines 354-363: the range over fileAuthors[path] in the order `order` *)
RECURSIVE TopOver(_, _, _, _)
TopOver(top, am, order, k) ==
    IF k > Len(order) THEN top
    ELSE TopOver(TopStep(top, order[k], am[order[k]]), am, order, k + 1)

(* The orders in which a range over a Go map may visit its keys: all *)
Orders(S) ==
    {o \in [1..Cardinality(S) -> S] : \A x \in S : \E k \in DOMAIN o : o[k] = x}

(* Lines 365-370 *)
Hotspot(path, count, top) ==
    [Path |-> path, Commits |-> count, TopContributor |-> top.who,
     AuthorCommits |-> top.n]

NoTop == [who |-> "", n |-> 0]

EntryPaths(hs) == {hs[k].Path : k \in 1..Len(hs)}

(* Mutant of Keys: paths with a single commit are left out *)
KeysHot(m) == {p \in DOMAIN m : m[p] > 1}

(* The keys a range over the map m visits, each once *)
Keys(m) == DOMAIN m

(* Lines 354-370 for one path: the entries the range over its authors can  *)
(* end on, one per order of the authors                                    *)
EntriesOf(cm, am, path) ==
    {Hotspot(path, cm[path], TopOver(NoTop, MapGet(am, path), o, 1)) :
        o \in Orders(DOMAIN MapGet(am, path))}

(* Lines 353-371: the tables the range over cm can build when it visits    *)
(* the paths in the order `order`, from position k on                      *)
RECURSIVE TablesFrom(_, _, _, _)
TablesFrom(cm, am, order, k) ==
    IF k > Len(order) THEN {NoSlice}
    ELSE {<<h>> \o t : h \in EntriesOf(cm, am, order[k]),
                       t \in TablesFrom(cm, am, order, k + 1)}

(* Mutant of Tables: an empty map yields a table with one empty row *)
TablesWithEmptyRow(cm, am) ==
    IF cm = NoMap THEN {<<Hotspot(NoSlice, 0, NoTop)>>}
    ELSE UNION {TablesFrom(cm, am, o, 1) : o \in Orders(Keys(cm))}

(* Lines 352-371 and 374-393: every table the loop can build *)
Tables(cm, am) == UNION {TablesFrom(cm, am, o, 1) : o \in Orders(Keys(cm))}

----------------------------------------------------------------------------
(* Inputs of IdentifyHotspots: commit records whose Files lists no path    *)
(* twice (what AnalyzeCommits produces), in path order.                    *)
SortedFiles(S) ==
    CHOOSE s \in [1..Cardinality(S) -> S] :
        /\ \A x \in S : \E k \in DOMAIN s : s[k] = x
        /\ \A j, k \in DOMAIN s : j < k => PathIx(s[j]) < PathIx(s[k])

SeqsUpTo(S, n) == UNION {[1..k -> S] : k \in 0..n}

FileLists ==
    {s \in SeqsUpTo(Paths, MaxFiles) :
        \A j, k \in DOMAIN s : j < k => PathIx(s[j]) < PathIx(s[k])}

CommitInfos == [Author : Authors, Files : FileLists]

HotIdle ==
    /\ commits = NoSlice /\ ci = 0
    /\ fileCommits = NoMap /\ dirCommits = NoMap
    /\ fileAuthors = NoMap /\ dirAuthors = NoMap
    /\ fileHotspots = NoSlice /\ dirHotspots = NoSlice

FilesIdle ==
    /\ commit = 0 /\ pos = 0 /\ files = NoSlice /\ seenFiles = {}
    /\ diffed = <<>> /\ ferr = FALSE /\ misses = 0

LogIdle ==
    /\ repo = 0 /\ heap = {} /\ seen = {} /\ out = NoSlice
    /\ result = 0

NoOutput == [lines |-> <<>>, files |-> NoSlice, dirs |-> NoSlice]
NoScreen == [files |-> NoSlice, dirs |-> NoSlice]

MainIdle ==
    /\ args = 0 /\ stdout = NoOutput /\ screen = NoScreen
    /\ calls = <<>> /\ exit = 0

InitHot ==
    /\ pc = "hs_count"
    /\ commits \in SeqsUpTo(CommitInfos, MaxCommits)
    /\ ci = 1
    /\ fileCommits = NoMap /\ dirCommits = NoMap
    /\ fileAuthors = NoMap /\ dirAuthors = NoMap
    /\ fileHotspots = NoSlice /\ dirHotspots = NoSlice
    /\ FilesIdle /\ LogIdle /\ MainIdle

(* Lines 325-349: one commit of the outer loop *)
HotCount ==
    /\ pc = "hs_count"
    /\ ci <= Len(commits)
    /\ LET m == CountCommitFiles(
                    Maps(fileCommits, dirCommits, fileAuthors, dirAuthors),
                    commits[ci])
       IN  /\ fileCommits' = m.fc
           /\ dirCommits' = m.dc
           /\ fileAuthors' = m.fa
           /\ dirAuthors' = m.da
    /\ ci' = ci + 1
    /\ UNCHANGED <<pc, commits, fileHotspots, dirHotspots, filesVars, logVars, mainVars>>

(* Lines 351-371: the file table, once the outer loop is over *)
HotFileTable ==
    /\ pc = "hs_count"
    /\ ci > Len(commits)
    /\ fileHotspots' \in Tables(fileCommits, fileAuthors)
    /\ pc' = "hs_dirs"
    /\ UNCHANGED <<commits, ci, fileCommits, dirCommits, fileAuthors,
                   dirAuthors, dirHotspots, filesVars, logVars, mainVars>>

(* Lines 373-398: the directory table, and the return *)
HotDirTable ==
    /\ pc = "hs_dirs"
    /\ dirHotspots' \in Tables(dirCommits, dirAuthors)
    /\ pc' = "hs_done"
    /\ UNCHANGED <<commits, ci, fileCommits, dirCommits, fileAuthors,
                   dirAuthors, fileHotspots, filesVars, logVars, mainVars>>

NextHot ==
    \/ HotCount
    \/ HotFileTable
    \/ HotDirTable

SpecHot == InitHot /\ [][NextHot]_vars

(* Mutant of HotCallAgain: the counters are kept from the call before *)
HotCallAgainShared ==
    /\ pc = "hs_done"
    /\ calls = <<>>
    /\ calls' = Append(calls, "IdentifyHotspots")
    /\ ci' = 1
    /\ fileHotspots' = NoSlice /\ dirHotspots' = NoSlice
    /\ pc' = "hs_count"
    /\ UNCHANGED <<commits, fileCommits, dirCommits, fileAuthors, dirAuthors,
                   args, stdout, screen, exit, filesVars, logVars>>

(* A second call of IdentifyHotspots on the same slice, lines 318-322 and  *)
(* 352, 374: the four maps are made and the two slices declared anew       *)
HotCallAgain ==
    /\ pc = "hs_done"
    /\ calls = <<>>
    /\ calls' = Append(calls, "IdentifyHotspots")
    /\ ci' = 1
    /\ fileCommits' = NoMap /\ dirCommits' = NoMap
    /\ fileAuthors' = NoMap /\ dirAuthors' = NoMap
    /\ fileHotspots' = NoSlice /\ dirHotspots' = NoSlice
    /\ pc' = "hs_count"
    /\ UNCHANGED <<commits, args, stdout, screen, exit, filesVars, logVars>>

NextHotTwice ==
    \/ HotCount
    \/ HotFileTable
    \/ HotDirTable
    \/ HotCallAgain

SpecHotTwice == InitHot /\ [][NextHotTwice]_vars

----------------------------------------------------------------------------
(* getFilesInCommit, lines 230-315 *)

(* The objects of the repository, as go-git hands them to the function.    *)
(* A tree maps the paths of its files to their blobs.                      *)
TreePaths == {<<"a">>, <<"d", "e", "c">>}
Blobs     == {"u", "v"}
Trees     == UNION {[S -> Blobs] : S \in SUBSET TreePaths}
NoTree    == <<>>

(* What looking a parent up and diffing against it can come to:            *)
(*   "ok"        parents.Next, parent.Tree and tree.Diff succeed           *)
(*   "notfound"  parents.Next returns plumbing.ErrObjectNotFound (262)     *)
(*   "error"     parents.Next returns another error (265)                  *)
(*   "notree"    parent.Tree fails (272)                                   *)
(*   "nodiff"    tree.Diff fails (278)                                     *)
ParentRefs ==
    [status : {"ok"}, tree : Trees] \cup
    [status : {"notfound", "error", "notree", "nodiff"}, tree : {NoTree}]

(* A commit object: fail = "tree" when commit.Tree fails (234), "files"    *)
(* when the walk of tree.Files fails (245, 304).                           *)
CommitObjects(n) ==
    [tree : Trees, fail : {"none", "tree", "files"},
     parents : SeqsUpTo(ParentRefs, n)]

(* Mutant of TreeFiles: only the files at the root of the tree *)
TreeFilesRootOnly(tree) == SortedFiles({p \in DOMAIN tree : Len(p) = 1})

(* tree.Files().ForEach (245-248, 304-307): the names of all files of the  *)
(* tree, each once, in path order                                          *)
TreeFiles(tree) == SortedFiles(DOMAIN tree)

(* The empty name of a change side that has no file *)
NoName == <<>>

(* tree.Diff(parentTree), line 277: one change per path that differs, From *)
(* on the side of the receiver (the commit's tree), To on the side of the  *)
(* argument (the parent's tree). With rename detection a path only in the  *)
(* commit's tree and a path only in the parent's tree may be reported as   *)
(* one change with two different names; `pairing` maps the former to the   *)
(* latter for the pairs so reported.                                       *)
OnlyIn(t1, t2) == (DOMAIN t1) \ (DOMAIN t2)
Modified(t1, t2) == {p \in (DOMAIN t1) \cap (DOMAIN t2) : t1[p] # t2[p]}

Pairings(from, to) ==
    {m \in UNION {[S -> OnlyIn(to, from)] : S \in SUBSET OnlyIn(from, to)} :
        \A p, q \in DOMAIN m : p # q => m[p] # m[q]}

ChangeSet(from, to, pairing) ==
    {[From |-> p, To |-> pairing[p]] : p \in DOMAIN pairing}
    \cup {[From |-> p, To |-> NoName] :
             p \in OnlyIn(from, to) \ DOMAIN pairing}
    \cup {[From |-> NoName, To |-> p] :
             p \in OnlyIn(to, from) \ {pairing[q] : q \in DOMAIN pairing}}
    \cup {[From |-> p, To |-> p] : p \in Modified(from, to)}

(* The name a change is listed under *)
ChangeKey(c) == IF c.From # NoName THEN c.From ELSE c.To

(* The changes as a list, in path order *)
ChangeList(S) ==
    CHOOSE s \in [1..Cardinality(S) -> S] :
        /\ \A x \in S : \E k \in DOMAIN s : s[k] = x
        /\ \A j, k \in DOMAIN s :
              j < k => PathIx(ChangeKey(s[j])) < PathIx(ChangeKey(s[k]))

TreeDiff(from, to) ==
    {ChangeList(ChangeSet(from, to, m)) : m \in Pairings(from, to)}

(* change.Action(), line 284: an error for a change with no side *)
ChangeAction(c) ==
    IF c.From = NoName /\ c.To = NoName THEN "error"
    ELSE IF c.From = NoName THEN "Insert"
    ELSE IF c.To = NoName THEN "Delete"
    ELSE "Modify"

(* Mutant of CollectChange: the seenFiles test is dropped *)
CollectChangeUnseen(st, c) ==
    IF ChangeAction(c) = "error" THEN st
    ELSE IF c.From # NoName
         THEN [files |-> Append(st.files, c.From),
               seen |-> st.seen \cup {c.From}]
         ELSE IF c.To # NoName
              THEN [files |-> Append(st.files, c.To),
                    seen |-> st.seen \cup {c.To}]
              ELSE st

(* Mutant of CollectChange: only the From side is collected *)
CollectChangeFromOnly(st, c) ==
    IF ChangeAction(c) = "error" THEN st
    ELSE IF c.From # NoName /\ c.From \notin st.seen
         THEN [files |-> Append(st.files, c.From),
               seen |-> st.seen \cup {c.From}]
         ELSE st

(* Mutant of CollectChange: the To name is tried before the From name *)
CollectChangeToFirst(st, c) ==
    IF ChangeAction(c) = "error" THEN st
    ELSE IF c.To # NoName /\ c.To \notin st.seen
         THEN [files |-> Append(st.files, c.To),
               seen |-> st.seen \cup {c.To}]
         ELSE IF c.From # NoName /\ c.From \notin st.seen
              THEN [files |-> Append(st.files, c.From),
                    seen |-> st.seen \cup {c.From}]
              ELSE st

(* Lines 284-298: one change of the inner loop *)
CollectChange(st, c) ==
    IF ChangeAction(c) = "error" THEN st
    ELSE IF ChangeAction(c) \in {"Insert", "Modify", "Delete"}
         THEN IF c.From # NoName /\ c.From \notin st.seen
              THEN [files |-> Append(st.files, c.From),
                    seen |-> st.seen \cup {c.From}]
              ELSE IF c.To # NoName /\ c.To \notin st.seen
                   THEN [files |-> Append(st.files, c.To),
                         seen |-> st.seen \cup {c.To}]
                   ELSE st
         ELSE st

(* Lines 283-299: the inner loop over the changes, from index k on *)
RECURSIVE CollectChanges(_, _, _)
CollectChanges(st, changes, k) ==
    IF k > Len(changes) THEN st
    ELSE CollectChanges(CollectChange(st, changes[k]), changes, k + 1)

(* Mutant of NeedsFallback: the fallback never runs *)
NeedsFallbackNever(fs) == FALSE

(* Line 303 *)
NeedsFallback(fs) == Len(fs) = 0

InitFiles ==
    /\ pc = "gf_start"
    /\ commit \in CommitObjects(MaxParents)
    /\ pos = 1
    /\ files = NoSlice /\ seenFiles = {} /\ diffed = <<>> /\ ferr = FALSE
    /\ misses = 0
    /\ HotIdle /\ LogIdle /\ MainIdle

(* Lines 234-237: commit.Tree() fails *)
FilesTreeError ==
    /\ pc = "gf_start"
    /\ commit.fail = "tree"
    /\ ferr' = TRUE
    /\ files' = NoSlice
    /\ pc' = "gf_done"
    /\ UNCHANGED <<commit, pos, seenFiles, diffed, misses, hotVars,
                   logVars, mainVars>>

(* Lines 243-251 and 314: a commit without parents lists its whole tree *)
FilesRoot ==
    /\ pc = "gf_start"
    /\ commit.fail # "tree"
    /\ Len(commit.parents) = 0
    /\ IF commit.fail = "files"
       THEN ferr' = TRUE /\ files' = NoSlice
       ELSE ferr' = FALSE /\ files' = files \o TreeFiles(commit.tree)
    /\ pc' = "gf_done"
    /\ UNCHANGED <<commit, pos, seenFiles, diffed, misses, hotVars,
                   logVars, mainVars>>

(* Lines 252-257: a commit with parents enters the loop over them *)
FilesEnterParents ==
    /\ pc = "gf_start"
    /\ commit.fail # "tree"
    /\ Len(commit.parents) > 0
    /\ seenFiles' = {}
    /\ pc' = "gf_parents"
    /\ UNCHANGED <<commit, pos, files, diffed, ferr, misses, hotVars,
                   logVars, mainVars>>

(* Lines 261-264: the parent object is not found; continue. The lookup     *)
(* iterator of the library decides whether its position moved past the     *)
(* missing parent: both outcomes are kept.                                 *)
FilesParentNotFound ==
    /\ pc = "gf_parents"
    /\ pos <= Len(commit.parents)
    /\ commit.parents[pos].status = "notfound"
    /\ pos' \in {pos, pos + 1}
    /\ misses' = 1 - misses
    /\ UNCHANGED <<pc, commit, files, seenFiles, diffed, ferr, hotVars,
                   logVars, mainVars>>

(* Lines 271-280: the parent's tree or the diff cannot be had; continue *)
FilesParentSkipped ==
    /\ pc = "gf_parents"
    /\ pos <= Len(commit.parents)
    /\ commit.parents[pos].status \in {"notree", "nodiff"}
    /\ pos' = pos + 1
    /\ UNCHANGED <<pc, commit, files, seenFiles, diffed, ferr, misses, hotVars,
                   logVars, mainVars>>

(* Lines 261-300: one parent, looked up and diffed *)
FilesParentDiffed ==
    /\ pc = "gf_parents"
    /\ pos <= Len(commit.parents)
    /\ commit.parents[pos].status = "ok"
    /\ \E changes \in TreeDiff(commit.tree, commit.parents[pos].tree) :
          LET st == CollectChanges([files |-> files, seen |-> seenFiles],
                                   changes, 1)
          IN  /\ files' = st.files
              /\ seenFiles' = st.seen
              /\ diffed' = Append(diffed, changes)
    /\ pos' = pos + 1
    /\ UNCHANGED <<pc, commit, ferr, misses, hotVars,
                   logVars, mainVars>>

(* Lines 265-268: the end of the parents, or another error of the lookup:  *)
(* break                                                                   *)
FilesParentsBreak ==
    /\ pc = "gf_parents"
    /\ \/ pos > Len(commit.parents)
       \/ /\ pos <= Len(commit.parents)
          /\ commit.parents[pos].status = "error"
    /\ pc' = "gf_after"
    /\ UNCHANGED <<commit, pos, files, seenFiles, diffed, ferr, misses, hotVars,
                   logVars, mainVars>>

(* Lines 302-314: the fallback to the whole tree, and the return *)
FilesReturn ==
    /\ pc = "gf_after"
    /\ IF NeedsFallback(files)
       THEN IF commit.fail = "files"
            THEN ferr' = TRUE /\ files' = NoSlice
            ELSE ferr' = FALSE /\ files' = files \o TreeFiles(commit.tree)
       ELSE UNCHANGED <<ferr, files>>
    /\ pc' = "gf_done"
    /\ UNCHANGED <<commit, pos, seenFiles, diffed, misses, hotVars,
                   logVars, mainVars>>

NextFiles ==
    \/ FilesTreeError
    \/ FilesRoot
    \/ FilesEnterParents
    \/ FilesParentNotFound
    \/ FilesParentSkipped
    \/ FilesParentDiffed
    \/ FilesParentsBreak
    \/ FilesReturn

SpecFiles == InitFiles /\ [][NextFiles]_vars

(* The same with the function kept running: a step is taken whenever one   *)
(* can be                                                                  *)
SpecFilesFair == SpecFiles /\ WF_vars(NextFiles)

----------------------------------------------------------------------------
(* getFilesInCommit as one call, for its callers: every (files, err) it    *)
(* can return, by the definitions the steps above use. A parent that is    *)
(* not found is passed over.                                               *)
ListTree(c, fs) ==
    IF c.fail = "files" THEN [files |-> NoSlice, err |-> TRUE]
    ELSE [files |-> fs \o TreeFiles(c.tree), err |-> FALSE]

RECURSIVE ParentsLoop(_, _, _)
ParentsLoop(c, k, st) ==
    IF k > Len(c.parents) \/ c.parents[k].status = "error" THEN {st}
    ELSE IF c.parents[k].status # "ok" THEN ParentsLoop(c, k + 1, st)
    ELSE UNION {ParentsLoop(c, k + 1, CollectChanges(st, changes, 1)) :
                   changes \in TreeDiff(c.tree, c.parents[k].tree)}

GetFilesInCommit(c) ==
    IF c.fail = "tree" THEN {[files |-> NoSlice, err |-> TRUE]}
    ELSE IF Len(c.parents) = 0 THEN {ListTree(c, NoSlice)}
    ELSE {IF NeedsFallback(st.files) THEN ListTree(c, st.files)
          ELSE [files |-> st.files, err |-> FALSE] :
             st \in ParentsLoop(c, 1, [files |-> NoSlice, seen |-> {}])}

(* The steps and the call agree *)
FilesStepsAgreeWithCall ==
    pc = "gf_done" => [files |-> files, err |-> ferr] \in GetFilesInCommit(commit)

----------------------------------------------------------------------------
(* AnalyzeCommits, lines 159-219 *)

(* Time, in years. Line 175: since = time.Now().AddDate(-1, 0, 0) *)
Year  == 1
Now   == 2 * Year
Since == Now - Year
Times == 0..Now

(* The lists of at most MaxParents parents a commit i can have: commits    *)
(* made before it                                                          *)
IdList(S) ==
    CHOOSE s \in [1..Cardinality(S) -> S] :
        /\ \A x \in S : \E k \in DOMAIN s : s[k] = x
        /\ \A j, k \in DOMAIN s : j < k => s[j] > s[k]

ParentLists(i) ==
    {IdList(S) : S \in {T \in SUBSET (1..(i - 1)) : Cardinality(T) <= MaxParents}}

(* A commit object of the repository: its parents, the times of its        *)
(* committer and author signatures (the author's is the committer's, or an *)
(* older one), as git_test.go createCommit writes them                     *)
RepoCommits(i) ==
    {c \in [parents : ParentLists(i), ctime : Times, atime : Times] :
        c.atime \in {c.ctime, 0}}

RECURSIVE Histories(_)
Histories(n) ==
    IF n = 0 THEN {<<>>}
    ELSE {Append(h, c) : h \in Histories(n - 1), c \in RepoCommits(n)}

(* The repositories: state "ok" has HEAD on its last commit; "notrepo" is  *)
(* a path PlainOpen rejects (163), "nohead" a repository without HEAD      *)
(* (169), "badhead" one whose HEAD names no commit object (183).           *)
Repos(n) ==
    [state : {"ok"}, commits : UNION {Histories(k) : k \in 1..n}]
    \cup [state : {"notrepo", "nohead", "badhead"}, commits : {<<>>}]

HeadOf(r) == Len(r.commits)

(* The file each commit writes (createCommit, git_test.go 49-66), and the  *)
(* tree it then has: the tree of its first parent with that file in it     *)
TreePathList == << <<"a">>, <<"d", "e", "c">> >>
WrittenPath(i) == TreePathList[(i % 2) + 1]
WrittenBlob(i) == IF (i \div 2) % 2 = 0 THEN "u" ELSE "v"
AuthorOf(i) == IF i % 2 = 1 THEN "X" ELSE "Y"

RECURSIVE TreeOf(_, _)
TreeOf(r, i) ==
    LET base == IF Len(r.commits[i].parents) = 0 THEN NoTree
                ELSE TreeOf(r, r.commits[i].parents[1])
    IN  [p \in (DOMAIN base) \cup {WrittenPath(i)} |->
            IF p = WrittenPath(i) THEN WrittenBlob(i) ELSE base[p]]

(* The *object.Commit of commit i, as getFilesInCommit reads it *)
CommitObject(r, i, fail) ==
    [tree |-> TreeOf(r, i), fail |-> fail,
     parents |-> [k \in 1..Len(r.commits[i].parents) |->
                    [status |-> "ok", tree |-> TreeOf(r, r.commits[i].parents[k])]]]

(* Lines 202-208 *)
CommitInfo(r, i, fs) ==
    [Hash |-> i, Author |-> AuthorOf(i), Date |-> r.commits[i].atime,
     Files |-> fs]

(* The log iterator of lines 176-186: From HEAD, in the order of committer *)
(* time, limited by Since.                                                 *)

(* The next commit the iterator takes: one with the latest committer time  *)
(* among those loaded                                                      *)
Latest(r, h) == {c \in h : \A d \in h : r.commits[d].ctime <= r.commits[c].ctime}

(* Mutant of Loaded: the parents of a commit older than Since are not      *)
(* walked                                                                  *)
LoadedPruned(r, h, sn, c) ==
    IF r.commits[c].ctime < Since THEN h \ {c}
    ELSE (h \ {c}) \cup (Range(r.commits[c].parents) \ (sn \cup {c}))

(* The commits loaded once c is taken: its parents join, unless seen *)
Loaded(r, h, sn, c) ==
    (h \ {c}) \cup (Range(r.commits[c].parents) \ (sn \cup {c}))

(* LogOptions.Since, line 179: a commit whose committer time is before     *)
(* since is passed over                                                    *)
BeforeSince(r, c) == r.commits[c].ctime < Since

InitLog ==
    /\ pc = "ac_open"
    /\ repo \in Repos(MaxRepoCommits)
    /\ heap = {} /\ seen = {} /\ out = NoSlice /\ result = 0
    /\ HotIdle /\ FilesIdle /\ MainIdle

Return(cs, err) == [commits |-> cs, err |-> err]

(* Mutant of Fail: the records appended so far are returned with the error *)
FailPartial(cs, err) == Return(cs, err)

(* "return nil, fmt.Errorf(...)" (165, 171, 185, 215): whatever the        *)
(* commits slice cs holds by then, nil is returned with the error          *)
Fail(cs, err) == Return(NoSlice, err)

(* Lines 163-166: the path is no repository *)
LogOpenError ==
    /\ pc = "ac_open"
    /\ repo.state = "notrepo"
    /\ result' = Fail(out, "failed to open git repository")
    /\ pc' = "ac_done"
    /\ UNCHANGED <<repo, heap, seen, out, hotVars, filesVars,
                 mainVars>>

(* Lines 169-172: HEAD cannot be resolved *)
LogHeadError ==
    /\ pc = "ac_open"
    /\ repo.state = "nohead"
    /\ result' = Fail(out, "failed to get HEAD reference")
    /\ pc' = "ac_done"
    /\ UNCHANGED <<repo, heap, seen, out, hotVars, filesVars,
                 mainVars>>

(* Lines 183-186: repo.Log fails *)
LogIterError ==
    /\ pc = "ac_open"
    /\ repo.state = "badhead"
    /\ result' = Fail(out, "failed to get commit iterator")
    /\ pc' = "ac_done"
    /\ UNCHANGED <<repo, heap, seen, out, hotVars, filesVars,
                 mainVars>>

(* Mutant of LogStart: a repository without HEAD is taken to have an empty *)
(* log                                                                     *)
LogStartWithoutHead ==
    /\ pc = "ac_open"
    /\ repo.state \in {"ok", "nohead"}
    /\ heap' = IF repo.state = "ok" THEN {HeadOf(repo)} ELSE {}
    /\ seen' = {}
    /\ pc' = "ac_walk"
    /\ UNCHANGED <<repo, out, result, hotVars, filesVars,
                 mainVars>>

(* Lines 163-186: the iterator is made, with the HEAD commit loaded *)
LogStart ==
    /\ pc = "ac_open"
    /\ repo.state = "ok"
    /\ heap' = {HeadOf(repo)}
    /\ seen' = {}
    /\ pc' = "ac_walk"
    /\ UNCHANGED <<repo, out, result, hotVars, filesVars,
                 mainVars>>

(* Line 189, inside the iterator: a commit before Since is passed over *)
LogSkip ==
    /\ pc = "ac_walk"
    /\ \E c \in Latest(repo, heap) :
          /\ BeforeSince(repo, c)
          /\ heap' = Loaded(repo, heap, seen, c)
          /\ seen' = seen \cup {c}
    /\ UNCHANGED <<pc, repo, out, result, hotVars, filesVars,
                 mainVars>>

(* Lines 189-212: the callback on the next commit, which appends it *)
LogCommit ==
    /\ pc = "ac_walk"
    /\ \E c \in Latest(repo, heap) :
          /\ ~BeforeSince(repo, c)
          /\ \E fail \in {"none", "tree", "files"} :
             \E r \in GetFilesInCommit(CommitObject(repo, c, fail)) :
                /\ ~r.err
                /\ out' = Append(out, CommitInfo(repo, c, r.files))
          /\ heap' = Loaded(repo, heap, seen, c)
          /\ seen' = seen \cup {c}
    /\ UNCHANGED <<pc, repo, result, hotVars, filesVars,
                 mainVars>>

(* Lines 191-194 and 214-216: getFilesInCommit fails in the callback *)
LogCommitError ==
    /\ pc = "ac_walk"
    /\ \E c \in Latest(repo, heap) :
          /\ ~BeforeSince(repo, c)
          /\ \E fail \in {"none", "tree", "files"} :
             \E r \in GetFilesInCommit(CommitObject(repo, c, fail)) : r.err
    /\ result' = Fail(out, "failed to iterate through commits")
    /\ pc' = "ac_done"
    /\ UNCHANGED <<repo, heap, seen, out, hotVars, filesVars,
                 mainVars>>

(* Lines 189 and 214-216: the iterator itself fails on an object *)
LogWalkError ==
    /\ pc = "ac_walk"
    /\ heap # {}
    /\ result' = Fail(out, "failed to iterate through commits")
    /\ pc' = "ac_done"
    /\ UNCHANGED <<repo, heap, seen, out, hotVars, filesVars,
                 mainVars>>

(* Lines 212-218: the iterator is at its end *)
LogReturn ==
    /\ pc = "ac_walk"
    /\ heap = {}
    /\ result' = Return(out, "")
    /\ pc' = "ac_done"
    /\ UNCHANGED <<repo, heap, seen, out, hotVars, filesVars,
                 mainVars>>

NextLog ==
    \/ LogOpenError
    \/ LogHeadError
    \/ LogIterError
    \/ LogStart
    \/ LogSkip
    \/ LogCommit
    \/ LogCommitError
    \/ LogWalkError
    \/ LogReturn

SpecLog == InitLog /\ [][NextLog]_vars

----------------------------------------------------------------------------
(* The shell-based AnalyzeCommits, git.go 31-89: it runs                   *)
(*   git log --pretty=format:%H|%an|%ad|%s --date=iso --name-only          *)
(*           --since=1 year                                                *)
(* and parses the text.                                                    *)

(* What git log shows. It walks from HEAD, latest committer time first,    *)
(* and shows the commits not before since; whether it walks on through a   *)
(* commit before since (stop = FALSE) or stops there (stop = TRUE) is      *)
(* left open.                                                              *)
GitLoaded(r, h, sn, c, stop) ==
    IF stop /\ BeforeSince(r, c) THEN h \ {c} ELSE Loaded(r, h, sn, c)

RECURSIVE GitWalk(_, _, _, _)
GitWalk(r, h, sn, stop) ==
    IF h = {} THEN {<<>>}
    ELSE UNION {{(IF BeforeSince(r, c) THEN <<>> ELSE <<c>>) \o w :
                    w \in GitWalk(r, GitLoaded(r, h, sn, c, stop),
                                  sn \cup {c}, stop)} :
                 c \in Latest(r, h)}

GitShown(r) == UNION {GitWalk(r, {HeadOf(r)}, {}, stop) : stop \in BOOLEAN}

(* --name-only: the files of a root commit, the paths that differ from the *)
(* parent for a commit with one parent, nothing for a merge                *)
NameOnly(r, i) ==
    LET ps == r.commits[i].parents
        t  == TreeOf(r, i)
    IN  IF Len(ps) = 0 THEN TreeFiles(t)
        ELSE IF Len(ps) = 1
             THEN SortedFiles(OnlyIn(t, TreeOf(r, ps[1]))
                              \cup OnlyIn(TreeOf(r, ps[1]), t)
                              \cup Modified(t, TreeOf(r, ps[1])))
             ELSE NoSlice

(* The lines of the output *)
HeaderLine(r, i) ==
    [kind |-> "header", id |-> i, author |-> AuthorOf(i),
     date |-> r.commits[i].atime, path |-> NoName]
FileLine(p) ==
    [kind |-> "file", id |-> 0, author |-> "", date |-> 0, path |-> p]
BlankLine ==
    [kind |-> "blank", id |-> 0, author |-> "", date |-> 0, path |-> NoName]

(* The output for the commits of `order` from position k on: the header    *)
(* line of a commit, its file lines, and a blank line after the file lines *)
(* when another commit follows                                             *)
RECURSIVE GitLogText(_, _, _)
GitLogText(r, order, k) ==
    IF k > Len(order) THEN <<>>
    ELSE LET fs == NameOnly(r, order[k])
         IN  <<HeaderLine(r, order[k])>>
             \o [j \in 1..Len(fs) |-> FileLine(fs[j])]
             \o (IF Len(fs) > 0 /\ k < Len(order) THEN <<BlankLine>> ELSE <<>>)
             \o GitLogText(r, order, k + 1)

(* strings.Split(output, "\n\n"), line 43: the runs of lines between blank *)
(* lines                                                                   *)
RECURSIVE SplitBlank(_, _, _)
SplitBlank(lines, k, cur) ==
    IF k > Len(lines) THEN <<cur>>
    ELSE IF lines[k].kind = "blank"
         THEN <<cur>> \o SplitBlank(lines, k + 1, <<>>)
         ELSE SplitBlank(lines, k + 1, Append(cur, lines[k]))

(* The text of a line taken as a file name (73-77) *)
LineText(l) ==
    IF l.kind = "file" THEN l.path
    ELSE <<ToString(l.id) \o "|" \o l.author \o "|" \o ToString(l.date)>>

(* Lines 45-86 for one raw commit: it is passed over when it is empty or   *)
(* has one line only (46-52) or its first line has fewer than four fields  *)
(* (57-60); else the first line is the header and every other line a file  *)
ParseRawCommit(raw) ==
    IF Len(raw) < 2 \/ raw[1].kind # "header" THEN <<>>
    ELSE << [Hash |-> raw[1].id, Author |-> raw[1].author,
             Date |-> raw[1].date,
             Files |-> [j \in 1..(Len(raw) - 1) |-> LineText(raw[j + 1])]] >>

RECURSIVE ParseRawCommits(_, _)
ParseRawCommits(raws, k) ==
    IF k > Len(raws) THEN NoSlice
    ELSE ParseRawCommit(raws[k]) \o ParseRawCommits(raws, k + 1)

(* Lines 31-89: the records the shell-based AnalyzeCommits can return on   *)
(* the repository r                                                        *)
ShellAnalyzeCommits(r) ==
    {ParseRawCommits(SplitBlank(GitLogText(r, o, 1), 1, <<>>), 1) :
        o \in GitShown(r)}

----------------------------------------------------------------------------
(* main, cmd/git-hotspots/main.go 16-87, and ui.DisplayHotspots,           *)
(* pkg/ui/ui.go 14-70                                                      *)

MaxMainCommits == 2    \* commit objects of the repository main is run on
MaxEntries == 6        \* entries of a table handed to the display step

DefaultTop   == 10     \* flag.Int("top", 10, ...)
SummaryCount == 5      \* displayCount := 5

(* The values of --top considered: the default and a smaller one *)
Tops == {DefaultTop, 3}

(* The command line: absOk is whether filepath.Abs succeeds (36) *)
Args == [absOk : BOOLEAN, testMode : BOOLEAN, top : Tops]

(* git.IsGitRepository (git.go 144-147): PlainOpen succeeds *)
IsGitRepository(r) == r.state # "notrepo"

(* fmt.Printf / fmt.Println of a line *)
PrintLine(o, line) == [o EXCEPT !.lines = Append(@, line)]

(* The loops of 67-73, 76-82 and ui.go 32-41: the entries at indices       *)
(* 0 .. n-1, in the order of the slice                                     *)
FirstN(t, n) ==
    IF n <= 0 THEN NoSlice
    ELSE SubSeq(t, 1, IF n < Len(t) THEN n ELSE Len(t))

(* Lines 62-65 *)
DisplayCount(top) == IF top < SummaryCount THEN top ELSE SummaryCount

(* sort.Slice with less = Commits greater (ui.go 18-23): the orders of the *)
(* indices S of t it can produce; it is not stable, so entries with equal  *)
(* Commits come in any order                                               *)
RECURSIVE SortOrders(_, _)
SortOrders(t, S) ==
    IF S = {} THEN {<<>>}
    ELSE UNION {{<<i>> \o r : r \in SortOrders(t, S \ {i})} :
                 i \in {j \in S : \A k \in S : t[k].Commits <= t[j].Commits}}

(* Mutant of SortSlice: the slice is left in the order it came in *)
SortSliceNone(t) == {t}

SortSlice(t) == {[k \in 1..Len(t) |-> t[o[k]]] : o \in SortOrders(t, 1..Len(t))}

InitMain ==
    /\ pc = "main"
    /\ repo \in Repos(MaxMainCommits)
    /\ args \in Args
    /\ heap = {} /\ seen = {} /\ out = NoSlice /\ result = 0
    /\ stdout = NoOutput /\ screen = NoScreen /\ calls = <<>> /\ exit = 0
    /\ HotIdle /\ FilesIdle

(* Lines 36-40: the path cannot be made absolute *)
MainAbsError ==
    /\ pc = "main"
    /\ ~args.absOk
    /\ stdout' = PrintLine(stdout, "Error resolving path")
    /\ exit' = 1
    /\ pc' = "exit"
    /\ UNCHANGED <<args, screen, calls, hotVars, filesVars, logVars>>

(* Lines 36-46: the path is no repository *)
MainNotRepo ==
    /\ pc = "main"
    /\ args.absOk
    /\ calls' = Append(calls, "IsGitRepository")
    /\ ~IsGitRepository(repo)
    /\ stdout' = PrintLine(stdout, "Error: is not a Git repository.")
    /\ exit' = 1
    /\ pc' = "exit"
    /\ UNCHANGED <<args, screen, hotVars, filesVars, logVars>>

(* Mutant of MainAnalyze: AnalyzeCommits is called without the check of    *)
(* lines 43-46                                                             *)
MainAnalyzeUnchecked ==
    /\ pc = "main"
    /\ args.absOk
    /\ calls' = calls \o <<"AnalyzeCommits">>
    /\ pc' = "ac_open"
    /\ UNCHANGED <<args, stdout, screen, exit, hotVars, filesVars, logVars>>

(* Lines 36-49: the path is a repository, and AnalyzeCommits is called *)
MainAnalyze ==
    /\ pc = "main"
    /\ args.absOk
    /\ IsGitRepository(repo)
    /\ calls' = calls \o <<"IsGitRepository", "AnalyzeCommits">>
    /\ pc' = "ac_open"
    /\ UNCHANGED <<args, stdout, screen, exit, hotVars, filesVars, logVars>>

(* Mutant of MainAnalyzeError: the error is printed and main goes on with  *)
(* the nil slice                                                           *)
MainAnalyzeErrorIgnored ==
    /\ pc = "ac_done"
    /\ result.err # ""
    /\ stdout' = PrintLine(stdout, "Error analyzing commits")
    /\ commits' = result.commits
    /\ ci' = 1
    /\ calls' = Append(calls, "IdentifyHotspots")
    /\ pc' = "hs_count"
    /\ UNCHANGED <<fileCommits, dirCommits, fileAuthors, dirAuthors,
                   fileHotspots, dirHotspots, args, screen, exit,
                   filesVars, logVars>>

(* Lines 50-53: AnalyzeCommits returned an error *)
MainAnalyzeError ==
    /\ pc = "ac_done"
    /\ result.err # ""
    /\ stdout' = PrintLine(stdout, "Error analyzing commits")
    /\ exit' = 1
    /\ pc' = "exit"
    /\ UNCHANGED <<args, screen, calls, hotVars, filesVars, logVars>>

(* Lines 50-56: AnalyzeCommits returned the records, and IdentifyHotspots  *)
(* is called on them                                                       *)
MainIdentify ==
    /\ pc = "ac_done"
    /\ result.err = ""
    /\ commits' = result.commits
    /\ ci' = 1
    /\ calls' = Append(calls, "IdentifyHotspots")
    /\ pc' = "hs_count"
    /\ UNCHANGED <<fileCommits, dirCommits, fileAuthors, dirAuthors,
                   fileHotspots, dirHotspots, args, stdout, screen, exit,
                   filesVars, logVars>>

(* Lines 59-82: test mode, the summary of the two tables is printed *)
MainSummary ==
    /\ pc = "hs_done"
    /\ args.testMode
    /\ stdout' =
          [lines |-> stdout.lines \o <<"Git Hotspots Analysis Summary:",
                                       "Top File Hotspots:",
                                       "Top Directory Hotspots:">>,
           files |-> FirstN(fileHotspots, DisplayCount(args.top)),
           dirs  |-> FirstN(dirHotspots, DisplayCount(args.top))]
    /\ pc' = "exit"
    /\ UNCHANGED <<args, screen, calls, exit, hotVars, filesVars, logVars>>

(* Lines 83-86 and ui.go 14-70: the tables are sorted in place, their      *)
(* first topCount entries rendered, and the application run; a failing     *)
(* application panics (ui.go 67-69), which ends the process with status 2  *)
MainDisplay ==
    /\ pc = "hs_done"
    /\ ~args.testMode
    /\ calls' = Append(calls, "DisplayHotspots")
    /\ fileHotspots' \in SortSlice(fileHotspots)
    /\ dirHotspots' \in SortSlice(dirHotspots)
    /\ screen' = [files |-> FirstN(fileHotspots', args.top),
                  dirs  |-> FirstN(dirHotspots', args.top)]
    /\ exit' \in {0, 2}
    /\ pc' = "exit"
    /\ UNCHANGED <<commits, ci, fileCommits, dirCommits, fileAuthors,
                   dirAuthors, args, stdout, filesVars, logVars>>

(* main: AnalyzeCommits and IdentifyHotspots run as above. PlainOpen has   *)
(* succeeded on the same path in IsGitRepository, so LogOpenError is not   *)
(* among the steps.                                                        *)
NextMain ==
    \/ MainAbsError
    \/ MainNotRepo
    \/ MainAnalyze
    \/ LogHeadError
    \/ LogIterError
    \/ LogStart
    \/ LogSkip
    \/ LogCommit
    \/ LogCommitError
    \/ LogWalkError
    \/ LogReturn
    \/ MainAnalyzeError
    \/ MainIdentify
    \/ HotCount
    \/ HotFileTable
    \/ HotDirTable
    \/ MainSummary
    \/ MainDisplay

SpecMain == InitMain /\ [][NextMain]_vars

(* The display step alone (58-86), on tables of up to MaxEntries entries   *)
(* as IdentifyHotspots can return them: distinct paths, in any order       *)
(* (the order of a range over a map). The entries of a table of n entries  *)
(* have the Commits values 1, 1, 2, ..., n-1, starting at any position.    *)
ShowCommits(n, r, k) ==
    LET j == ((k + r - 1) % n) + 1 IN IF j <= 2 THEN 1 ELSE j - 1

FilePath(k) == [j \in 1..k |-> IF j = k THEN "f" ELSE "d"]
DirPath(k)  == [j \in 1..k |-> "d"]

FileTables ==
    {NoSlice} \cup
    {[k \in 1..n |-> Hotspot(FilePath(k), ShowCommits(n, r, k),
                             [who |-> "X", n |-> ShowCommits(n, r, k)])] :
        n \in 1..MaxEntries, r \in 0..(MaxEntries - 1)}

DirTables ==
    {NoSlice} \cup
    {[k \in 1..n |-> Hotspot(DirPath(k), ShowCommits(n, r, k),
                             [who |-> "Y", n |-> ShowCommits(n, r, k)])] :
        n \in 1..MaxEntries, r \in 0..(MaxEntries - 1)}

InitShow ==
    /\ pc = "hs_done"
    /\ args \in [absOk : {TRUE}, testMode : BOOLEAN, top : Tops]
    /\ fileHotspots \in FileTables
    /\ dirHotspots \in DirTables
    /\ commits = NoSlice /\ ci = 1
    /\ fileCommits = NoMap /\ dirCommits = NoMap
    /\ fileAuthors = NoMap /\ dirAuthors = NoMap
    /\ stdout = NoOutput /\ screen = NoScreen /\ exit = 0
    /\ calls = <<"IsGitRepository", "AnalyzeCommits", "IdentifyHotspots">>
    /\ FilesIdle /\ LogIdle

NextShow ==
    \/ MainSummary
    \/ MainDisplay

SpecShow == InitShow /\ [][NextShow]_vars

----------------------------------------------------------------------------
(* What the input says, computed from the commit sequence alone *)

(* Every path some commit of the sequence lists *)
InputPaths == UNION {Range(commits[k].Files) : k \in 1..Len(commits)}

(* The file-touches: one per commit and listed path *)
Touches ==
    UNION {{<<k, j>> : j \in 1..Len(commits[k].Files)} : k \in 1..Len(commits)}

TouchPath(t) == commits[t[1]].Files[t[2]]
TouchAuthor(t) == commits[t[1]].Author

(* A path's immediate parent directory, for a path that has one *)
HasParent(p) == Len(p) > 1
ParentOf(p) == [k \in 1..(Len(p) - 1) |-> p[k]]

FileTouchesOf(p) == {t \in Touches : TouchPath(t) = p}
DirTouchesOf(d) ==
    {t \in Touches : HasParent(TouchPath(t)) /\ ParentOf(TouchPath(t)) = d}

(* The commits that list path p *)
CommitsListing(p) == {k \in 1..Len(commits) : p \in Range(commits[k].Files)}

(* Touches of one author *)
By(T, a) == {t \in T : TouchAuthor(t) = a}

(* The greatest per-author touch count among the touches T *)
MaxBy(T) ==
    CHOOSE n \in 0..Cardinality(T) :
        /\ \A a \in Authors : Cardinality(By(T, a)) <= n
        /\ \E a \in Authors : Cardinality(By(T, a)) = n

HotDone == pc = "hs_done"

----------------------------------------------------------------------------
(* C1: the Commits value of every file entry equals the number of distinct *)
(* commits of the sequence whose Files lists that path.                    *)
C1_FileCommitsCount ==
    HotDone => \A k \in 1..Len(fileHotspots) :
        fileHotspots[k].Commits =
            Cardinality(CommitsListing(fileHotspots[k].Path))

(* C1 witness: a returned file table with a path two commits list and a    *)
(* path only one of them lists.                                            *)
C1_Witness ==
    /\ HotDone
    /\ Len(commits) = 2
    /\ \E j, k \in 1..Len(fileHotspots) :
          /\ fileHotspots[j].Commits = 2
          /\ fileHotspots[k].Commits = 1

(* C2: the Commits value of a directory entry d equals the number of       *)
(* file-touches (one per commit per changed file) whose file has d as its  *)
(* immediate parent; one commit touching two files of a directory adds 2.  *)
C2_DirCommitsCount ==
    HotDone => \A k \in 1..Len(dirHotspots) :
        dirHotspots[k].Commits =
            Cardinality(DirTouchesOf(dirHotspots[k].Path))

(* C2 witness: a single commit touches two files of one directory and the  *)
(* returned entry of that directory counts 2.                              *)
C2_Witness ==
    /\ HotDone
    /\ Len(commits) = 1
    /\ commits[1].Files = << <<"d", "e", "c">>, <<"d", "e", "f">> >>
    /\ \E k \in 1..Len(dirHotspots) :
          /\ dirHotspots[k].Path = <<"d", "e">>
          /\ dirHotspots[k].Commits = 2

(* C3: in both tables TopContributor is an author whose touch count for    *)
(* the path is the maximum over all authors, and AuthorCommits is that     *)
(* maximum; with a tie the result is one of the tied authors.              *)
TopIsMax(h, T) ==
    /\ h.TopContributor \in Authors
    /\ Cardinality(By(T, h.TopContributor)) = MaxBy(T)
    /\ h.AuthorCommits = MaxBy(T)

C3_TopContributorIsMax ==
    HotDone =>
    /\ \A k \in 1..Len(fileHotspots) :
          TopIsMax(fileHotspots[k], FileTouchesOf(fileHotspots[k].Path))
    /\ \A k \in 1..Len(dirHotspots) :
          TopIsMax(dirHotspots[k], DirTouchesOf(dirHotspots[k].Path))

(* C3 witness: a file whose two authors are tied (the second one wins) and *)
(* a directory where one author leads the other 2 to 1.                    *)
C3_Witness ==
    /\ HotDone
    /\ \E k \in 1..Len(fileHotspots) :
          LET T == FileTouchesOf(fileHotspots[k].Path) IN
          /\ \A a \in Authors : Cardinality(By(T, a)) = 1
          /\ fileHotspots[k].TopContributor = "Y"
    /\ \E k \in 1..Len(dirHotspots) :
          LET T == DirTouchesOf(dirHotspots[k].Path) IN
          /\ Cardinality(By(T, "X")) = 2
          /\ Cardinality(By(T, "Y")) = 1
          /\ dirHotspots[k].TopContributor = "X"

(* C4: the returned file table has exactly one entry per distinct path of  *)
(* the input: no path dropped, no path in two entries.                     *)
C4_OneEntryPerPath ==
    HotDone =>
        /\ EntryPaths(fileHotspots) = InputPaths
        /\ Len(fileHotspots) = Cardinality(InputPaths)

(* C4 witness: a path listed by two commits beside two paths listed once;  *)
(* three entries are returned.                                             *)
C4_Witness ==
    /\ HotDone
    /\ Len(commits) = 2
    /\ Cardinality(InputPaths) = 3
    /\ \E p \in InputPaths : Cardinality(CommitsListing(p)) = 2
    /\ Len(fileHotspots) = 3

(* C5: the directory table has an entry for d exactly when d is the        *)
(* immediate parent of some changed path: a root-level file gives no       *)
(* entry, and d/e/c gives d/e, never the ancestor d.                       *)
C5_DirEntriesAreImmediateParents ==
    HotDone =>
        /\ EntryPaths(dirHotspots) =
              {ParentOf(p) : p \in {q \in InputPaths : HasParent(q)}}
        /\ Len(dirHotspots) = Cardinality(EntryPaths(dirHotspots))

(* C5 witness: the input lists the root-level file a and d/e/c only; the   *)
(* directory table is the single entry d/e.                                *)
C5_Witness ==
    /\ HotDone
    /\ InputPaths = {<<"a">>, <<"d", "e", "c">>}
    /\ EntryPaths(dirHotspots) = {<<"d", "e">>}
    /\ Len(dirHotspots) = 1

----------------------------------------------------------------------------
(* What the commit object says, computed from its trees alone *)

(* The paths that differ between two trees: in one only, or in both with   *)
(* different blobs                                                         *)
Differ(t1, t2) ==
    {p \in TreePaths :
        \/ (p \in DOMAIN t1) # (p \in DOMAIN t2)
        \/ p \in DOMAIN t1 /\ p \in DOMAIN t2 /\ t1[p] # t2[p]}

NumParents == Len(commit.parents)

(* The union, over the parents, of the paths that differ from the parent *)
UnionDiffer ==
    UNION {Differ(commit.tree, commit.parents[k].tree) : k \in 1..NumParents}

AllParentsOk == \A k \in 1..NumParents : commit.parents[k].status = "ok"

(* A change the diff reports under two different names *)
IsRename(c) == c.From # NoName /\ c.To # NoName /\ c.From # c.To
NoRenameReported ==
    \A k \in 1..Len(diffed) : \A j \in 1..Len(diffed[k]) : ~IsRename(diffed[k][j])

(* getFilesInCommit has returned (files, nil) *)
FilesOk == pc = "gf_done" /\ ~ferr

NoDuplicate(fs) == \A j, k \in 1..Len(fs) : j # k => fs[j] # fs[k]

(* C6: the list getFilesInCommit returns names no path twice, also for a   *)
(* merge commit where a path differs from several parents.                 *)
C6_NoPathTwice == FilesOk => NoDuplicate(files)

(* C6 witness: a merge commit differs from its first parent in a and from  *)
(* its second parent in a and d/e/c; the two paths are returned, a once.   *)
C6_Witness ==
    /\ FilesOk
    /\ NumParents = 2 /\ AllParentsOk
    /\ Differ(commit.tree, commit.parents[1].tree) = {<<"a">>}
    /\ Differ(commit.tree, commit.parents[2].tree) = {<<"a">>, <<"d", "e", "c">>}
    /\ Len(files) = 2
    /\ Range(files) = {<<"a">>, <<"d", "e", "c">>}

(* C7 as stated: with one or more parents, all resolved and diffed, the    *)
(* result is exactly the union of the differing paths.                     *)
C7_ExactlyTheUnion ==
    (FilesOk /\ NumParents >= 1 /\ AllParentsOk) =>
        Range(files) = UnionDiffer

(* C7 amended: with one or more parents, all resolved and diffed, the      *)
(* result is the union of the differing paths when that union is not empty *)
(* and no diff reports a rename; with renames it is a part of the union    *)
(* that holds every differing path of the commit's tree; and when no path  *)
(* differs from any parent it is every file of the commit's tree.          *)
C7_UnionOrWholeTree ==
    (FilesOk /\ NumParents >= 1 /\ AllParentsOk) =>
        IF UnionDiffer = {}
        THEN Range(files) = DOMAIN commit.tree
        ELSE /\ Range(files) \subseteq UnionDiffer
             /\ UnionDiffer \cap DOMAIN commit.tree \subseteq Range(files)
             /\ NoRenameReported => Range(files) = UnionDiffer

(* C7 witness: two parents, both diffed without a rename; the commit       *)
(* changed a and deleted d/e/c, and both paths are returned.               *)
C7_Witness ==
    /\ FilesOk
    /\ NumParents = 2 /\ AllParentsOk /\ NoRenameReported
    /\ DOMAIN commit.tree = {<<"a">>}
    /\ UnionDiffer = {<<"a">>, <<"d", "e", "c">>}
    /\ Range(files) = UnionDiffer

(* C8: for a commit with no parent the result is every file of the         *)
(* commit's tree, each once, and nothing else.                             *)
C8_RootListsWholeTree ==
    (FilesOk /\ NumParents = 0) =>
        /\ Range(files) = DOMAIN commit.tree
        /\ Len(files) = Cardinality(DOMAIN commit.tree)

(* C8 witness: a root commit with the files a and d/e/c returns both.      *)
C8_Witness ==
    /\ FilesOk
    /\ NumParents = 0
    /\ DOMAIN commit.tree = {<<"a">>, <<"d", "e", "c">>}
    /\ Len(files) = 2

(* C9: for a commit with parents, when the loop over the parents yields no *)
(* changed path (no diff was had, or every diff is empty) the result is    *)
(* every file of the commit's tree, as for a root commit.                  *)
NoPathYielded == \A k \in 1..Len(diffed) : Len(diffed[k]) = 0

C9_FallbackListsWholeTree ==
    (FilesOk /\ NumParents >= 1 /\ NoPathYielded) =>
        /\ Range(files) = DOMAIN commit.tree
        /\ Len(files) = Cardinality(DOMAIN commit.tree)

(* C9 witness: two parents whose lookups both fail; the two files of the   *)
(* commit's tree are returned.                                             *)
C9_Witness ==
    /\ FilesOk
    /\ NumParents = 2
    /\ \A k \in 1..NumParents :
          commit.parents[k].status \in {"notfound", "error"}
    /\ DOMAIN commit.tree = {<<"a">>, <<"d", "e", "c">>}
    /\ Len(files) = 2

----------------------------------------------------------------------------
(* What the repository says, computed from its commit objects alone *)

(* The commits reachable from HEAD: HEAD and the ancestors of HEAD *)
RECURSIVE Closure(_, _)
Closure(r, S) ==
    LET T == S \cup UNION {Range(r.commits[c].parents) : c \in S}
    IN  IF T = S THEN S ELSE Closure(r, T)

Reachable(r) == Closure(r, {HeadOf(r)})

(* The one-year window that ends at the time of the call, its ends         *)
(* included; a commit's time is that of its committer signature, the time  *)
(* git log --since and LogOptions.Since go by                              *)
InWindow(t) == Now - Year <= t /\ t <= Now

LogOk == pc = "ac_done" /\ result.err = ""

Hashes(cs) == {cs[k].Hash : k \in 1..Len(cs)}

C11_AuthorTimeStrictlyAfterCutoff ==
    LogOk =>
        Hashes(result.commits) =
            {c \in Reachable(repo) : repo.commits[c].atime > Now - Year}

(* C12: whenever AnalyzeCommits returns an error it returns no commit      *)
(* record, also when records had been appended before the failure.         *)
C12_NoRecordsWithError ==
    (pc = "ac_done" /\ result.err # "") => result.commits = NoSlice

(* C12 witness: the walk fails after a record has been appended, and the   *)
(* result holds none.                                                      *)
C12_Witness ==
    /\ pc = "ac_done"
    /\ result.err = "failed to iterate through commits"
    /\ Len(out) >= 1
    /\ result.commits = NoSlice

(* C13: two runs of the aggregation on the same commit records return      *)
(* content-equal tables (the same Path, Commits, TopContributor and        *)
(* AuthorCommits for every entry, whatever the order of the entries), also *)
(* for a path whose authors are tied: every table a run can build has the  *)
(* entries of the tables this run returned.                                *)
C13_RunsAgree ==
    HotDone =>
        /\ \A t \in Tables(fileCommits, fileAuthors) :
              Range(t) = Range(fileHotspots)
        /\ \A t \in Tables(dirCommits, dirAuthors) :
              Range(t) = Range(dirHotspots)

(* C14: IdentifyHotspots always comes to its return (it has no error       *)
(* result, and no step of it can fail to be taken), and for the empty      *)
(* sequence, or one whose commits all have empty Files, both returned      *)
(* tables are empty.                                                       *)
C14_TotalAndEmptyOnNoPaths ==
    /\ pc \in {"hs_count", "hs_dirs"} => ENABLED NextHot
    /\ (HotDone /\ InputPaths = {}) =>
          (fileHotspots = NoSlice /\ dirHotspots = NoSlice)

(* C14 witness: a sequence of two commits without files, returned from     *)
(* with two empty tables.                                                  *)
C14_Witness ==
    /\ HotDone
    /\ Len(commits) = 2
    /\ \A k \in 1..Len(commits) : commits[k].Files = NoSlice
    /\ fileHotspots = NoSlice /\ dirHotspots = NoSlice

(* The counting pass of IdentifyHotspots over a whole sequence cs *)
RECURSIVE CountAll(_, _, _)
CountAll(m, cs, k) ==
    IF k > Len(cs) THEN m
    ELSE CountAll(CountCommitFiles(m, cs[k]), cs, k + 1)

(* The sequence cs in the order given by the permutation o of its indices *)
Permuted(cs, o) == [k \in 1..Len(cs) |-> cs[o[k]]]

(* The counts of a table: Path, Commits and AuthorCommits of every entry *)
CountsOf(t) ==
    {<<t[k].Path, t[k].Commits, t[k].AuthorCommits>> : k \in 1..Len(t)}

(* The counts of every entry lines 353-371 can build from the maps cm, am *)
CountsFrom(cm, am) ==
    {<<h.Path, h.Commits, h.AuthorCommits>> :
        h \in UNION {EntriesOf(cm, am, p) : p \in Keys(cm)}}

(* C15: Commits and AuthorCommits of every file and directory entry are    *)
(* the same for every permutation of the commit sequence.                  *)
C15_CountsIgnoreOrder ==
    HotDone =>
        \A o \in Orders(1..Len(commits)) :
            LET m == CountAll(Maps(NoMap, NoMap, NoMap, NoMap),
                              Permuted(commits, o), 1)
            IN  /\ CountsFrom(m.fc, m.fa) = CountsOf(fileHotspots)
                /\ CountsFrom(m.dc, m.da) = CountsOf(dirHotspots)

(* C15 witness: two different commits of different authors that share a    *)
(* file and a directory, one of them touching the directory twice.         *)
C15_Witness ==
    /\ HotDone
    /\ Len(commits) = 2
    /\ commits[1].Author # commits[2].Author
    /\ commits[1].Files # commits[2].Files
    /\ \E k \in 1..Len(fileHotspots) : fileHotspots[k].Commits = 2
    /\ \E k \in 1..Len(dirHotspots) :
          dirHotspots[k].Commits = 3 /\ dirHotspots[k].AuthorCommits = 2

(* C16: AnalyzeCommits returns the records most recent first: of any two   *)
(* returned records the one at the lower index has a timestamp (Date) not  *)
(* older than the one at the higher index.                                 *)
C16_MostRecentFirst ==
    LogOk =>
        \A j, k \in 1..Len(result.commits) :
            j < k => result.commits[j].Date >= result.commits[k].Date

(* C17: when the path is no repository, or HEAD cannot be resolved,        *)
(* AnalyzeCommits returns an error and no records, and the log iterator    *)
(* was never made: nothing was loaded, visited or appended.                *)
C17_FailsBeforeTraversal ==
    (pc = "ac_done" /\ repo.state \in {"notrepo", "nohead"}) =>
        /\ result.err # ""
        /\ result.commits = NoSlice
        /\ heap = {} /\ seen = {} /\ out = NoSlice

(* C17 witness: a repository without HEAD, returned from with the error of *)
(* line 171.                                                               *)
C17_Witness ==
    /\ pc = "ac_done"
    /\ repo.state = "nohead"
    /\ result = Return(NoSlice, "failed to get HEAD reference")

----------------------------------------------------------------------------
(* The command-line program *)

Exited == pc = "exit"
Called(f) == f \in Range(calls)
SummaryPrinted ==
    \/ "Git Hotspots Analysis Summary:" \in Range(stdout.lines)
    \/ stdout.files # NoSlice
    \/ stdout.dirs # NoSlice
UiLaunched == Called("DisplayHotspots") \/ screen # NoScreen

(* C18: the repository predicate is evaluated before extraction: when it   *)
(* is false for the resolved path the process prints the 'is not a Git     *)
(* repository' diagnostic and exits non-zero, and AnalyzeCommits,          *)
(* IdentifyHotspots and the display are never reached.                     *)
C18_GateBeforeExtraction ==
    /\ (Called("AnalyzeCommits") \/ Called("IdentifyHotspots")
            \/ Called("DisplayHotspots") \/ SummaryPrinted) =>
          (calls[1] = "IsGitRepository" /\ IsGitRepository(repo))
    /\ (args.absOk /\ ~IsGitRepository(repo)) =>
          /\ pc \in {"main", "exit"}
          /\ Exited =>
                /\ stdout.lines = <<"Error: is not a Git repository.">>
                /\ exit # 0
                /\ calls = <<"IsGitRepository">>
                /\ ~SummaryPrinted /\ ~UiLaunched

(* C18 witness: the program has exited on a path that is no repository.    *)
C18_Witness ==
    /\ Exited
    /\ args.absOk
    /\ repo.state = "notrepo"
    /\ exit = 1
    /\ calls = <<"IsGitRepository">>

AnalyzeFailed == Called("AnalyzeCommits") /\ result.err # ""

(* C19: on each of the three failures (the path cannot be made absolute,   *)
(* the path is no repository, AnalyzeCommits returns an error) the program *)
(* exits non-zero after printing the diagnostic, and neither prints a      *)
(* summary nor launches the UI; when none occurs it reaches the display.   *)
C19_FailuresExitNonZero ==
    Exited =>
        /\ ~args.absOk =>
              stdout.lines = <<"Error resolving path">>
        /\ (args.absOk /\ ~IsGitRepository(repo)) =>
              stdout.lines = <<"Error: is not a Git repository.">>
        /\ AnalyzeFailed =>
              stdout.lines = <<"Error analyzing commits">>
        /\ IF ~args.absOk \/ ~IsGitRepository(repo) \/ AnalyzeFailed
           THEN exit # 0 /\ ~SummaryPrinted /\ ~UiLaunched
           ELSE IF args.testMode THEN SummaryPrinted ELSE UiLaunched

(* C19 witness: the walk of the log failed after the repository check      *)
(* passed, and the program exited with status 1.                           *)
C19_Witness ==
    /\ Exited
    /\ args.absOk
    /\ Called("AnalyzeCommits")
    /\ result.err = "failed to iterate through commits"
    /\ stdout.lines = <<"Error analyzing commits">>
    /\ exit = 1

(* The entries shown are the n of table t with the highest Commits, or all *)
(* of t when it has fewer                                                  *)
HighestOf(shown, t, n) ==
    /\ Len(shown) = (IF Len(t) < n THEN Len(t) ELSE n)
    /\ Cardinality(Range(shown)) = Len(shown)
    /\ Range(shown) \subseteq Range(t)
    /\ \A h \in Range(shown) : \A g \in Range(t) \ Range(shown) :
          h.Commits >= g.Commits

(* C20: in test mode (with --top at its default, or at least 5) the        *)
(* program prints for each table the 5 entries with the highest Commits,   *)
(* all entries of a table with fewer than 5, each with its four fields,    *)
(* and does not invoke the UI.                                             *)
C20_SummaryShowsHighestFive ==
    (Exited /\ args.testMode /\ args.top >= SummaryCount) =>
        /\ HighestOf(stdout.files, fileHotspots, SummaryCount)
        /\ HighestOf(stdout.dirs, dirHotspots, SummaryCount)
        /\ ~UiLaunched

(* The entries are in non-increasing order of Commits *)
NonIncreasing(shown) ==
    \A j, k \in 1..Len(shown) : j < k => shown[j].Commits >= shown[k].Commits

(* C21: DisplayHotspots renders, for each table, at most topCount entries  *)
(* (10 by default), in non-increasing order of Commits, and no entry left  *)
(* out has a larger Commits than an entry shown.                           *)
C21_DisplayShowsTopSorted ==
    (Exited /\ ~args.testMode) =>
        /\ Len(screen.files) <= args.top
        /\ Len(screen.dirs) <= args.top
        /\ NonIncreasing(screen.files)
        /\ NonIncreasing(screen.dirs)
        /\ HighestOf(screen.files, fileHotspots, args.top)
        /\ HighestOf(screen.dirs, dirHotspots, args.top)

(* C21 witness: with --top 3 a file table of six entries is rendered as    *)
(* its three entries with 5, 4 and 3 commits; with it a directory table    *)
(* of two entries with equal Commits, both shown.                          *)
C21_Witness ==
    /\ Exited /\ ~args.testMode
    /\ args.top = 3
    /\ Len(fileHotspots) = 6
    /\ Len(screen.files) = 3
    /\ screen.files[1].Commits = 5
    /\ screen.files[3].Commits = 3
    /\ Len(dirHotspots) = 2
    /\ Len(screen.dirs) = 2

(* The four maps hold the touches of the sequence `commits`, and nothing   *)
(* else                                                                    *)
CountsAreOfInput ==
    /\ DOMAIN fileCommits = InputPaths
    /\ DOMAIN fileAuthors = InputPaths
    /\ \A p \in InputPaths :
          /\ fileCommits[p] = Cardinality(FileTouchesOf(p))
          /\ \A a \in DOMAIN fileAuthors[p] :
                fileAuthors[p][a] = Cardinality(By(FileTouchesOf(p), a))
    /\ DOMAIN dirAuthors = DOMAIN dirCommits
    /\ \A d \in DOMAIN dirCommits :
          /\ dirCommits[d] = Cardinality(DirTouchesOf(d))
          /\ \A a \in DOMAIN dirAuthors[d] :
                dirAuthors[d][a] = Cardinality(By(DirTouchesOf(d), a))

(* C22: IdentifyHotspots leaves the commit sequence and its records as     *)
(* they are, and a call does not see the counters of another call on the   *)
(* same input: at each return the counters hold this call's touches only.  *)
C22_PureTransformation ==
    /\ [][commits' = commits]_vars
    /\ [](HotDone => CountsAreOfInput)

(* C22 witness: the second call on a sequence of two commits sharing a     *)
(* file has returned.                                                      *)
C22_Witness ==
    /\ HotDone
    /\ calls = <<"IdentifyHotspots">>
    /\ Len(commits) = 2
    /\ \E k \in 1..Len(fileHotspots) : fileHotspots[k].Commits = 2

(* C23: the loop over the parents of getFilesInCommit terminates for every *)
(* commit, also when the lookup of a parent reports object-not-found: the  *)
(* function comes to its return.                                           *)
C23_ParentLoopTerminates == <>(pc = "gf_done")

(* Some parent failed: its lookup, its tree or the diff against it *)
SomeParentFailed == \E k \in 1..NumParents : commit.parents[k].status # "ok"

(* C24: for a commit with several parents, a failure on one parent raises  *)
(* no error and does not keep the other parents from being diffed: the     *)
(* returned list holds every path that differs from each resolvable        *)
(* parent (checked where no diff made reports a rename).                   *)
C24_OtherParentsStillDiffed ==
    (pc = "gf_done" /\ commit.fail = "none" /\ NumParents >= 2
        /\ SomeParentFailed) =>
        /\ ~ferr
        /\ NoRenameReported =>
              \A k \in 1..NumParents :
                  commit.parents[k].status = "ok" =>
                      Differ(commit.tree, commit.parents[k].tree)
                          \subseteq Range(files)

(* A step that diffs one parent (277-299), the changes the diff returned,  *)
(* the paths the step appended, and the tree of the parent diffed          *)
DiffStep == pc = "gf_parents" /\ Len(diffed') = Len(diffed) + 1
StepChanges == diffed'[Len(diffed')]
StepNew == SubSeq(files', Len(files) + 1, Len(files'))
StepParentTree == commit.parents[pos].tree
NamesOf(c) == {c.From, c.To} \ {NoName}

(* C25 as stated: an entry classified insert or modify has a path of the   *)
(* commit's own tree collected, an entry classified delete a path of the   *)
(* parent's tree, one path per entry (of the first parent diffed).         *)
C25_AfterSideForInsert ==
    [][DiffStep =>
        /\ files = NoSlice => Len(StepNew) = Len(StepChanges)
        /\ \A j \in 1..Len(StepChanges) :
              LET c == StepChanges[j] IN
              /\ ChangeAction(c) \in {"Insert", "Modify"} =>
                    \E p \in NamesOf(c) \cap Range(files') :
                        p \in DOMAIN commit.tree
              /\ ChangeAction(c) = "Delete" =>
                    \E p \in NamesOf(c) \cap Range(files') :
                        p \in DOMAIN StepParentTree]_vars

(* C25 amended: an entry classified insert, modify or delete has at most   *)
(* one path collected, and exactly one unless it was collected before: the *)
(* path on the side of the commit's own tree for a modify or a delete, the *)
(* path on the side of the parent's tree for an insert (the diff runs from *)
(* the commit's tree to the parent's); the parent-side name of a rename is *)
(* collected only when the commit-side name was collected before.          *)
C25_OnePathByName ==
    [][DiffStep =>
        /\ NoDuplicate(StepNew)
        /\ Len(StepNew) <= Len(StepChanges)
        /\ files = NoSlice => Len(StepNew) = Len(StepChanges)
        /\ \A p \in Range(StepNew) :
              /\ p \notin Range(files)
              /\ Cardinality({j \in 1..Len(StepChanges) :
                                 p \in NamesOf(StepChanges[j])}) = 1
        /\ \A j \in 1..Len(StepChanges) :
              LET c == StepChanges[j] IN
              /\ ChangeAction(c) \in {"Insert", "Modify", "Delete"}
              /\ ChangeAction(c) = "Insert" =>
                    /\ c.To \in (DOMAIN StepParentTree) \ (DOMAIN commit.tree)
                    /\ c.To \in Range(files')
              /\ ChangeAction(c) = "Delete" =>
                    /\ c.From \in (DOMAIN commit.tree) \ (DOMAIN StepParentTree)
                    /\ c.From \in Range(files')
              /\ ChangeAction(c) = "Modify" =>
                    /\ c.From \in DOMAIN commit.tree
                    /\ c.From \in Range(files')
                    /\ (c.To # c.From /\ c.To \in Range(StepNew)) =>
                          c.From \in Range(files)]_vars

(* C25 witness: against its second parent the commit has an entry          *)
(* classified insert (a, only in the parent) and one classified delete     *)
(* (d/e/c, only in the commit); both paths have been collected.            *)
C25_Witness ==
    /\ FilesOk
    /\ Len(diffed) = 2
    /\ diffed[2] = << [From |-> NoName, To |-> <<"a">>],
                      [From |-> <<"d", "e", "c">>, To |-> NoName] >>
    /\ Range(files) = {<<"a">>, <<"d", "e", "c">>}

(* Two sequences of records name the same commits in the same order, each  *)
(* with the same id, author and set of changed paths                       *)
SameRecords(a, b) ==
    /\ Len(a) = Len(b)
    /\ \A k \in 1..Len(a) :
          /\ a[k].Hash = b[k].Hash
          /\ a[k].Author = b[k].Author
          /\ Range(a[k].Files) = Range(b[k].Files)

(* C26: the shell-based and the library-based AnalyzeCommits return the    *)
(* same sequence of records on every commit log: what the library-based    *)
(* one returned is what the shell-based one returns (for one of the walks  *)
(* git log may take).                                                      *)
C26_ShellAgreesWithLibrary ==
    LogOk => \E sh \in ShellAnalyzeCommits(repo) :
                 SameRecords(result.commits, sh)

(* C27: a record is never left without paths: when getFilesInCommit        *)
(* returns without error for a commit whose tree has at least one file,    *)
(* the list it returns (the Files of the record, 196-199) is not empty.    *)
C27_RecordHasPaths ==
    (FilesOk /\ TreeFiles(commit.tree) # NoSlice) => files # NoSlice

(* A commit that differs from none of its parents was given the files of   *)
(* its tree                                                                *)
C27_Witness ==
    /\ FilesOk
    /\ Len(commit.parents) = MaxParents
    /\ \A k \in 1..Len(commit.parents) :
          /\ commit.parents[k].status = "ok"
          /\ commit.parents[k].tree = commit.tree
    /\ TreeFiles(commit.tree) # NoSlice
    /\ files = TreeFiles(commit.tree)

(* The maps IdentifyHotspots counts (325-349) from the records cs *)
CountedFrom(cs) == CountAll(Maps(NoMap, NoMap, NoMap, NoMap), cs, 1)

(* C28: end to end, no file entry has a Commits value above the number of  *)
(* records: of the records AnalyzeCommits returned, IdentifyHotspots       *)
(* builds no file entry that counts more commits than there are records.   *)
C28_CountWithinRecords ==
    LogOk =>
        LET m == CountedFrom(result.commits)
        IN  \A t \in CountsFrom(m.fc, m.fa) : t[2] <= Len(result.commits)

(* The record of a merge commit with a path that differs from two of its   *)
(* parents, and that path counted once for each record                     *)
C28_Witness ==
    /\ LogOk
    /\ \E k \in 1..Len(result.commits) :
          LET i  == result.commits[k].Hash
              ps == repo.commits[i].parents
              t  == TreeOf(repo, i)
          IN  /\ Len(ps) = 2
              /\ \E p \in DOMAIN t :
                    /\ \A j \in 1..2 :
                          p \notin DOMAIN TreeOf(repo, ps[j])
                          \/ TreeOf(repo, ps[j])[p] # t[p]
                    /\ Len(result.commits) = 1
                    /\ CountedFrom(result.commits).fc[p] = 1

(* The sum of the counts a map holds *)
RECURSIVE MapSum(_)
MapSum(m) ==
    IF DOMAIN m = {} THEN 0
    ELSE LET x == CHOOSE y \in DOMAIN m : TRUE
         IN  m[x] + MapSum([y \in (DOMAIN m) \ {x} |-> m[y]])

(* The sum of Commits over the entries of the table hs at the indices K *)
RECURSIVE CommitsSum(_, _)
CommitsSum(hs, K) ==
    IF K = {} THEN 0
    ELSE LET k == CHOOSE j \in K : TRUE
         IN  hs[k].Commits + CommitsSum(hs, K \ {k})

(* An entry's AuthorCommits lies between 1 and its Commits, and the counts *)
(* of its authors in the map am add up to its Commits                      *)
EntryAddsUp(h, am) ==
    /\ 1 <= h.AuthorCommits
    /\ h.AuthorCommits <= h.Commits
    /\ MapSum(MapGet(am, h.Path)) = h.Commits

(* C29: after IdentifyHotspots every entry of either table has             *)
(* 1 <= AuthorCommits <= Commits and per-author counts that sum to its     *)
(* Commits; the Commits of the file table sum to the number of path        *)
(* occurrences in the Files of all commits; and the Commits of a directory *)
(* entry is the sum of the Commits of the file entries whose immediate     *)
(* parent is that directory.                                               *)
C29_CountsAddUp ==
    HotDone =>
        /\ \A k \in 1..Len(fileHotspots) :
              EntryAddsUp(fileHotspots[k], fileAuthors)
        /\ \A k \in 1..Len(dirHotspots) :
              EntryAddsUp(dirHotspots[k], dirAuthors)
        /\ CommitsSum(fileHotspots, 1..Len(fileHotspots)) = Cardinality(Touches)
        /\ \A k \in 1..Len(dirHotspots) :
              dirHotspots[k].Commits =
                  CommitsSum(fileHotspots,
                             {j \in 1..Len(fileHotspots) :
                                 Dir(fileHotspots[j].Path) = dirHotspots[k].Path})

(* A directory entry that sums two file entries, and an entry two authors  *)
(* share                                                                   *)
C29_Witness ==
    /\ HotDone
    /\ \E k \in 1..Len(dirHotspots) :
          /\ dirHotspots[k].Commits >= 2
          /\ Cardinality({j \in 1..Len(fileHotspots) :
                 Dir(fileHotspots[j].Path) = dirHotspots[k].Path}) = 2
          /\ dirHotspots[k].AuthorCommits < dirHotspots[k].Commits
    /\ \E j \in 1..Len(fileHotspots) :
          fileHotspots[j].AuthorCommits < fileHotspots[j].Commits

====
